---- MODULE Spec2Model ----
(***************************************************************************)
(* Model of the campaign manager (app.py) and of its recommender           *)
(* (ml_model.py): the in-memory customers / campaigns stores, the model    *)
(* artifact recommender.pkl, the request handlers, and train_and_save /    *)
(* load_model / recommend both as whole calls and step by step.            *)
(***************************************************************************)
EXTENDS Integers, Sequences, FiniteSets, TLC

\* ------------------------------------------------------------- bounds
\* Campaign launches accepted over a run (caps the uuid counter).
MaxLaunches == 6
\* Delete requests (customer or campaign) served over a run.
MaxDeletes == 1
\* Longest campaigns list handed to a direct call of the recommender.
MaxHistory == 6
\* Process crashes (each followed by a restart) over a run.
MaxCrashes == 1

\* ------------------------------------------------------ program constants
\* ml_model.py: "if len(X) < 5: return None"
MinExamples == 5

\* ml_model.py: PRODUCTS
PRODUCTS == {"Wireless Headphones", "Smartwatch", "Laptop", "Bluetooth Speaker"}

\* app.py: the form value that asks for a recommendation
AIRecommended == "AI Recommended"

\* ----------------------------------------------------------- input sets
\* Customer ids a form may carry ("" is what an empty field strips to).
CustomerIds == {"c1", "c2"}
\* An id no customer was ever registered under.
GhostId == "nonexistent_id"
\* Interest tags as typed into the form, in every spelling the claims name.
AllInterests ==
  {"electronics", "ELECTRONICS", "Gadgets", "computers", "Music", "books", ""}
\* The customers the operator registers in the request-level runs.
CustomerForms == {<<"c1", "Ann", "Music">>, <<"c2", "", "books">>}
\* The launch forms (customer, product) of the request-level runs: an
\* explicit product outside PRODUCTS (the field is free text) and the
\* auto-select request.
LaunchForms == {<<"c1", "Tablet">>, <<"c1", AIRecommended>>, <<"c2", "Tablet">>}
\* The campaign ids a delete request names: two issued early, one never issued.
DeleteIds == {1, 3, 0}
\* fake_metrics(): the (open_rate, click_rate, conversions) drawn in the
\* request-level runs.
LaunchMetrics == {<<10, 1, 0>>}

\* ------------------------------------------------------------ dictionaries
\* Python dict.get(key, default) on a dict modelled as a function.
DictGet(d, key, default) == IF key \in DOMAIN d THEN d[key] ELSE default

\* d[key] = value
DictPut(d, key, value) ==
  [k \in (DOMAIN d) \cup {key} |-> IF k = key THEN value ELSE d[k]]

\* del d[key]
DictDel(d, key) == [k \in (DOMAIN d) \ {key} |-> d[k]]

EmptyDict == [k \in {} |-> ""]

Range(s) == {s[i] : i \in DOMAIN s}

\* str.lower() on the interest tags in use
Lower(s) ==
  CASE s = "ELECTRONICS" -> "electronics"
    [] s = "Gadgets" -> "gadgets"
    [] s = "Music" -> "music"
    [] OTHER -> s

\* ------------------------------------------------------------ ml_model.py
\* The feature dict built in build_training_data and in recommend.
Features(interest, open_rate, click_rate, conversions) ==
  [interest |-> interest, open_rate |-> open_rate,
   click_rate |-> click_rate, conversions |-> conversions]

\* build_training_data with a bug: campaigns of unregistered customers are
\* skipped.
BuildTrainingData_SkipsUnresolved(custs, camps) ==
  LET Resolved(c) == c.customer_id \in DOMAIN custs
      kept == SelectSeq(camps, Resolved)
  IN [X |-> [i \in 1..Len(kept) |->
               Features(DictGet(custs[kept[i].customer_id], "interest", "unknown"),
                        kept[i].open_rate, kept[i].click_rate, kept[i].conversions)],
      y |-> [i \in 1..Len(kept) |-> kept[i].product]]

\* build_training_data(customers, campaigns): X and y, one entry per campaign.
BuildTrainingData(custs, camps) ==
  [X |-> [i \in 1..Len(camps) |->
            Features(DictGet(DictGet(custs, camps[i].customer_id, EmptyDict),
                             "interest", "unknown"),
                     camps[i].open_rate, camps[i].click_rate, camps[i].conversions)],
   y |-> [i \in 1..Len(camps) |-> camps[i].product]]

\* LogisticRegression.fit(X_vec, y) raises ValueError when y holds one class.
FitRaises(data) == Cardinality(Range(data.y)) < 2

\* DictVectorizer.fit_transform(X): the fitted vectorizer; "fit" names the
\* training pass (its data) that fixed the feature space.
FitVectorizer(data) == [fit |-> data]

\* LogisticRegression.fit(X_vec, y): the fitted classifier, its classes_ the
\* labels seen, over the feature space of the same pass.
FitClassifier(data) == [fit |-> data, classes |-> Range(data.y)]

\* The (vec, clf) tuple of one pass.
FitPair(data) == [vec |-> FitVectorizer(data), clf |-> FitClassifier(data)]

NoData == [X |-> <<>>, y |-> <<>>]

\* pickle.dump((vec, clf), f): the byte stream, in the order it is written:
\* the vectorizer, the classifier, the STOP opcode that ends the pickle.
Pickle(pair) ==
  << [k |-> "vec", fit |-> pair.vec.fit, classes |-> {}],
     [k |-> "clf", fit |-> pair.clf.fit, classes |-> pair.clf.classes],
     [k |-> "stop", fit |-> NoData, classes |-> {}] >>

\* pickle.load(f) succeeds on a stream that holds both halves and the STOP.
Loadable(data) ==
  /\ Len(data) >= 3
  /\ data[1].k = "vec"
  /\ data[2].k = "clf"
  /\ data[3].k = "stop"

Unpickle(data) ==
  [vec |-> [fit |-> data[1].fit],
   clf |-> [fit |-> data[2].fit, classes |-> data[2].classes]]

\* The artifact at MODEL_PATH: absent, or a file with its bytes.
NoFile == [exists |-> FALSE, data |-> <<>>]
FileOf(data) == [exists |-> TRUE, data |-> data]

\* load_model(): "none" when the path does not exist, "raised" when the
\* pickle cannot be read, else the pair.
NoPair == FitPair(NoData)
LoadModel(f) ==
  IF ~f.exists THEN [kind |-> "none", pair |-> NoPair]
  ELSE IF ~Loadable(f.data) THEN [kind |-> "raised", pair |-> NoPair]
  ELSE [kind |-> "pair", pair |-> Unpickle(f.data)]

\* The fallback with a bug: the tag is looked up as typed (no .lower()).
FallbackProduct_CaseSensitive(interest) ==
  CASE interest = "electronics" -> "Wireless Headphones"
    [] interest = "gadgets" -> "Smartwatch"
    [] interest = "computers" -> "Laptop"
    [] interest = "music" -> "Bluetooth Speaker"
    [] OTHER -> "Wireless Headphones"

\* recommend(): the rule-based fallback, mapping.get(interest.lower(), ...).
FallbackProduct(interest) ==
  LET low == Lower(interest)
  IN CASE low = "electronics" -> "Wireless Headphones"
       [] low = "gadgets" -> "Smartwatch"
       [] low = "computers" -> "Laptop"
       [] low = "music" -> "Bluetooth Speaker"
       [] OTHER -> "Wireless Headphones"

\* recommend() with a bug: the customer's campaign with the latest created_at.
RecentFeatures_LatestByTimestamp(camps, customer_id, interest) ==
  LET Mine(c) == c.customer_id = customer_id
      recent == SelectSeq(camps, Mine)
  IN IF recent # <<>>
     THEN LET last == CHOOSE c \in Range(recent) :
                        \A d \in Range(recent) : d.created_at <= c.created_at
          IN Features(interest, last.open_rate, last.click_rate, last.conversions)
     ELSE Features(interest, 0, 0, 0)

\* recommend(): the features of the customer's last campaign in list order.
RecentFeatures(camps, customer_id, interest) ==
  LET Mine(c) == c.customer_id = customer_id
      recent == SelectSeq(camps, Mine)
  IN IF recent # <<>>
     THEN LET last == recent[Len(recent)]
          IN Features(interest, last.open_rate, last.click_rate, last.conversions)
     ELSE Features(interest, 0, 0, 0)

\* vec.transform(features): the vector, in the feature space of vec's pass.
Transform(vec, features) == [space |-> vec.fit, x |-> features]

\* clf.predict(X_vec)[0] is one of clf.classes_; which one the learned
\* weights decide, so every class is a possible outcome.
Predictions(clf, xvec) == clf.classes

\* train_and_save with a bug: on insufficient data it also removes the
\* artifact of the earlier pass.
TrainAndSave_DropsStale(custs, camps, f) ==
  LET data == BuildTrainingData(custs, camps)
  IN IF Len(data.X) < MinExamples
     THEN [result |-> "None", pair |-> FitPair(NoData), file |-> [exists |-> FALSE, data |-> <<>>],
           n |-> Len(data.X)]
     ELSE IF FitRaises(data)
     THEN [result |-> "ValueError", pair |-> FitPair(NoData), file |-> f, n |-> Len(data.X)]
     ELSE [result |-> "pair", pair |-> FitPair(data),
           file |-> [exists |-> TRUE, data |-> Pickle(FitPair(data))], n |-> Len(data.X)]

\* train_and_save with a bug: the threshold is off by one (len(X) < 4).
TrainAndSave_ThresholdFour(custs, camps, f) ==
  LET data == BuildTrainingData(custs, camps)
  IN IF Len(data.X) < MinExamples - 1
     THEN [result |-> "None", pair |-> FitPair(NoData), file |-> f, n |-> Len(data.X)]
     ELSE IF FitRaises(data)
     THEN [result |-> "ValueError", pair |-> FitPair(NoData), file |-> f, n |-> Len(data.X)]
     ELSE [result |-> "pair", pair |-> FitPair(data),
           file |-> [exists |-> TRUE, data |-> Pickle(FitPair(data))], n |-> Len(data.X)]

\* train_and_save(customers, campaigns) on the artifact f: what it returns
\* ("None", the pair, or the ValueError of fit) and the artifact it leaves.
TrainAndSave(custs, camps, f) ==
  LET data == BuildTrainingData(custs, camps)
  IN IF Len(data.X) < MinExamples
     THEN [result |-> "None", pair |-> NoPair, file |-> f, n |-> Len(data.X)]
     ELSE IF FitRaises(data)
     THEN [result |-> "ValueError", pair |-> NoPair, file |-> f, n |-> Len(data.X)]
     ELSE [result |-> "pair", pair |-> FitPair(data),
           file |-> FileOf(Pickle(FitPair(data))), n |-> Len(data.X)]

NoFeatures == Features("", 0, 0, 0)

\* The model branch with a bug: a predicted label outside PRODUCTS is
\* replaced by the fallback product.
RecommendFromModel_CatalogCheck(customer_id, interest, features, pair, pred) ==
  [path |-> "model", loaded |-> "pair", customer_id |-> customer_id,
   interest |-> interest, features |-> features, pair |-> pair, predicted |-> pred,
   returned |-> IF pred \in PRODUCTS THEN pred ELSE FallbackProduct(interest)]

\* recommend(), the model branch: the loaded pair, the features fed to its
\* vectorizer, the label its classifier predicted and the label returned.
RecommendFromModel(customer_id, interest, features, pair, pred) ==
  [path |-> "model", loaded |-> "pair", customer_id |-> customer_id,
   interest |-> interest, features |-> features, pair |-> pair, predicted |-> pred,
   returned |-> pred]

\* recommend(customers, campaigns, customer_id) on the artifact f: every
\* outcome the call can have. loaded is what load_model did ("none",
\* "raised", "pair"); path is "raised" (the exception of load_model leaves
\* recommend), "fallback" (no model) or "model" (the loaded pair predicts).
Recommend(custs, camps, f, customer_id) ==
  LET model == LoadModel(f)
      interest == DictGet(DictGet(custs, customer_id, EmptyDict), "interest", "unknown")
      features == RecentFeatures(camps, customer_id, interest)
      xvec == Transform(model.pair.vec, features)
  IN IF model.kind = "raised"
     THEN {[path |-> "raised", loaded |-> "raised", customer_id |-> customer_id,
            interest |-> "", features |-> NoFeatures, pair |-> NoPair,
            predicted |-> "", returned |-> ""]}
     ELSE IF model.kind = "none"
     THEN {[path |-> "fallback", loaded |-> "none", customer_id |-> customer_id,
            interest |-> interest, features |-> NoFeatures, pair |-> NoPair,
            predicted |-> "", returned |-> FallbackProduct(interest)]}
     ELSE {RecommendFromModel(customer_id, interest, features, model.pair, pred) :
             pred \in Predictions(model.pair.clf, xvec)}

\* ------------------------------------------------------------------ state
VARIABLES
  session,    \* "username" in session
  customers,  \* app.py customers: id -> record
  campaigns,  \* app.py campaigns: list of records, in insertion order
  nextId,     \* campaigns launched so far (the uuid4 of the next one)
  deletes,    \* delete requests served so far
  file,       \* the artifact at MODEL_PATH
  resp,       \* the last request: handler and how it ended
  trainOut,   \* the last train_and_save call: result and examples seen
  recOut,     \* the last recommend call: its outcome
  threads,    \* step-wise runs: each in-flight request's position and locals
  crashes     \* step-wise runs: times the process died and was restarted

vars == <<session, customers, campaigns, nextId, deletes, file, resp, trainOut,
          recOut, threads, crashes>>

NoResp == [handler |-> "", status |-> "", flash |-> ""]
NoTrain == [result |-> "", pair |-> NoPair, n |-> 0]
NoRec == [path |-> "", loaded |-> "", customer_id |-> "", interest |-> "",
          features |-> NoFeatures, pair |-> NoPair, predicted |-> "", returned |-> ""]

Redirect(handler, flash) == [handler |-> handler, status |-> "redirect", flash |-> flash]
\* An exception that leaves the view function: Flask answers 500.
Error500(handler, exc) == [handler |-> handler, status |-> "500", flash |-> exc]

TrainRecord(t) == [result |-> t.result, pair |-> t.pair, n |-> t.n]

NoThreads == [t \in {} |-> 0]

Init ==
  /\ session = FALSE
  /\ customers = EmptyDict
  /\ campaigns = <<>>
  /\ nextId = 0
  /\ deletes = 0
  /\ file = NoFile
  /\ resp = NoResp
  /\ trainOut = NoTrain
  /\ recOut = NoRec
  /\ threads = NoThreads
  /\ crashes = 0

\* ------------------------------------------------------- app.py handlers
\* login(): a POST with valid credentials.
Login ==
  /\ ~session
  /\ session' = TRUE
  /\ resp' = Redirect("login", "Logged in successfully!")
  /\ trainOut' = NoTrain
  /\ recOut' = NoRec
  /\ UNCHANGED <<customers, campaigns, nextId, deletes, file, threads, crashes>>

\* The record customers_page stores at line 122, and the one at line 132.
CustomerRecord(name, interest) ==
  [name |-> IF name = "" THEN "Unknown" ELSE name, interest |-> interest]
CustomerRecordNoInterest(name) ==
  [name |-> IF name = "" THEN "Unknown" ELSE name]

\* customers_page(), POST
AddCustomer(customer_id, name, interest) ==
  /\ UNCHANGED <<session, campaigns, nextId, deletes, file, threads, crashes>>
  /\ trainOut' = NoTrain
  /\ recOut' = NoRec
  /\ IF ~session
     THEN /\ resp' = Redirect("customers_page", "Please login first.")
          /\ UNCHANGED customers
     ELSE LET stored == DictPut(customers, customer_id, CustomerRecord(name, interest))
          IN IF customer_id = ""
             THEN /\ customers' = stored
                  /\ resp' = Redirect("customers_page", "Customer ID is required.")
             ELSE IF customer_id \in DOMAIN stored
             THEN /\ customers' = stored
                  /\ resp' = Redirect("customers_page", "Customer already exists.")
             ELSE /\ customers' = DictPut(stored, customer_id, CustomerRecordNoInterest(name))
                  /\ resp' = Redirect("customers_page", "Customer added successfully!")

\* delete_customer with a bug: the campaigns of the customer are kept.
DeleteCustomer_KeepsCampaigns(customer_id) ==
  /\ deletes < MaxDeletes
  /\ UNCHANGED <<session, nextId, file, threads, crashes, campaigns>>
  /\ trainOut' = NoTrain
  /\ recOut' = NoRec
  /\ IF ~session
     THEN /\ resp' = Redirect("delete_customer", "Please login first.")
          /\ UNCHANGED <<customers, deletes>>
     ELSE /\ customers' = IF customer_id \in DOMAIN customers
                          THEN DictDel(customers, customer_id) ELSE customers
          /\ deletes' = deletes + 1
          /\ resp' = Redirect("delete_customer", "Deleted customer and related campaigns.")

\* delete_customer(customer_id)
DeleteCustomer(customer_id) ==
  /\ deletes < MaxDeletes
  /\ UNCHANGED <<session, nextId, file, threads, crashes>>
  /\ trainOut' = NoTrain
  /\ recOut' = NoRec
  /\ IF ~session
     THEN /\ resp' = Redirect("delete_customer", "Please login first.")
          /\ UNCHANGED <<customers, campaigns, deletes>>
     ELSE LET Others(c) == c.customer_id # customer_id
          IN /\ customers' = IF customer_id \in DOMAIN customers
                             THEN DictDel(customers, customer_id) ELSE customers
             /\ campaigns' = SelectSeq(campaigns, Others)
             /\ deletes' = deletes + 1
             /\ resp' = Redirect("delete_customer", "Deleted customer and related campaigns.")

\* delete_campaign(campaign_id)
DeleteCampaign(campaign_id) ==
  /\ deletes < MaxDeletes
  /\ UNCHANGED <<session, customers, nextId, file, threads, crashes>>
  /\ trainOut' = NoTrain
  /\ recOut' = NoRec
  /\ IF ~session
     THEN /\ resp' = Redirect("delete_campaign", "Please login first.")
          /\ UNCHANGED <<campaigns, deletes>>
     ELSE LET Others(c) == c.id # campaign_id
              after == SelectSeq(campaigns, Others)
          IN /\ campaigns' = after
             /\ deletes' = deletes + 1
             /\ resp' = Redirect("delete_campaign",
                                 IF Len(after) < Len(campaigns)
                                 THEN "Campaign deleted." ELSE "Campaign not found.")

\* The dict launch_campaign appends.
\* now_str(): the clock read by the handler, one tick per launch.
now_str == nextId + 1

Campaign(id, customer_id, product, m, created_at) ==
  [id |-> id, customer_id |-> customer_id, product |-> product,
   created_at |-> created_at,
   open_rate |-> m[1], click_rate |-> m[2], conversions |-> m[3]]

\* launch_campaign with a bug: train_and_save is called before the append.
LaunchWith_TrainsBeforeAppend(customer_id, product, m, r) ==
  LET appended == Append(campaigns, Campaign(nextId + 1, customer_id, product, m, now_str))
      t == TrainAndSave(customers, campaigns, file)
  IN /\ campaigns' = appended
     /\ nextId' = nextId + 1
     /\ recOut' = r
     /\ trainOut' = [result |-> t.result, pair |-> t.pair, n |-> t.n]
     /\ file' = t.file
     /\ resp' = IF t.result = "ValueError"
                THEN [handler |-> "launch_campaign", status |-> "500", flash |-> "ValueError"]
                ELSE [handler |-> "launch_campaign", status |-> "redirect",
                      flash |-> "Campaign launched"]

\* launch_campaign(), from the recommendation (r, when asked for) on: the
\* append, the training pass and the response.
LaunchWith(customer_id, product, m, r) ==
  LET appended == Append(campaigns, Campaign(nextId + 1, customer_id, product, m, now_str))
      t == TrainAndSave(customers, appended, file)
  IN /\ campaigns' = appended
     /\ nextId' = nextId + 1
     /\ recOut' = r
     /\ trainOut' = TrainRecord(t)
     /\ file' = t.file
     /\ resp' = IF t.result = "ValueError"
                THEN Error500("launch_campaign", "ValueError")
                ELSE Redirect("launch_campaign", "Campaign launched")

\* launch_campaign()
LaunchCampaign(customer_id, product, m) ==
  /\ nextId < MaxLaunches
  /\ UNCHANGED <<session, customers, deletes, threads, crashes>>
  /\ IF ~session
     THEN /\ resp' = Redirect("launch_campaign", "Please login first")
          /\ trainOut' = NoTrain
          /\ recOut' = NoRec
          /\ UNCHANGED <<campaigns, nextId, file>>
     ELSE IF customer_id \notin DOMAIN customers
     THEN /\ resp' = Redirect("launch_campaign", "Customer not found.")
          /\ trainOut' = NoTrain
          /\ recOut' = NoRec
          /\ UNCHANGED <<campaigns, nextId, file>>
     ELSE IF product = AIRecommended
     THEN \E r \in Recommend(customers, campaigns, file, customer_id) :
            IF r.path = "raised"
            THEN /\ resp' = Error500("launch_campaign", "UnpicklingError")
                 /\ recOut' = r
                 /\ trainOut' = NoTrain
                 /\ UNCHANGED <<campaigns, nextId, file>>
            ELSE LaunchWith(customer_id, r.returned, m, r)
     ELSE LaunchWith(customer_id, product, m, NoRec)

Next ==
  \/ Login
  \/ \E f \in CustomerForms : AddCustomer(f[1], f[2], f[3])
  \/ \E c \in CustomerIds : DeleteCustomer(c)
  \/ \E i \in DeleteIds : DeleteCampaign(i)
  \/ \E f \in LaunchForms, m \in LaunchMetrics : LaunchCampaign(f[1], f[2], m)

Spec == Init /\ [][Next]_vars

\* -------------------------------------------- direct calls of ml_model.py
\* The arguments a caller hands to train_and_save and recommend: a customers
\* dict holding c1 (with any interest tag, or with none) or nobody, and a
\* campaigns list of up to MaxHistory outcomes, some of them of a customer
\* that is not in customers.
CallCustomers ==
  {EmptyDict}
    \cup {[k \in {"c1"} |-> CustomerRecord("Ann", i)] : i \in AllInterests}
    \cup {[k \in {"c1"} |-> CustomerRecordNoInterest("Ann")]}

HistoryItems ==
  {<<"c1", "Laptop", <<10, 1, 0>>, 2>>, <<"c1", "Tablet", <<90, 90, 10>>, 1>>,
   <<GhostId, "Tablet", <<10, 1, 0>>, 3>>}

HistoryOf(items) ==
  [i \in 1..Len(items) |->
     Campaign(i, items[i][1], items[i][2], items[i][3], items[i][4])]

Histories ==
  {HistoryOf(items) : items \in UNION {[1..n -> HistoryItems] : n \in 0..MaxHistory}}

\* The artifact before the call: none, or the pair an earlier pass persisted.
EarlierCustomers == [k \in {"c1"} |-> CustomerRecord("Ann", "music")]
EarlierHistory ==
  HistoryOf(<<<<"c1", "Tablet", <<10, 1, 0>>, 1>>, <<"c1", "Tablet", <<10, 1, 0>>, 2>>,
              <<"c1", "Laptop", <<90, 90, 10>>, 3>>, <<"c1", "Tablet", <<10, 1, 0>>, 4>>,
              <<"c1", "Laptop", <<10, 1, 0>>, 5>>>>)
CallFiles == {NoFile, TrainAndSave(EarlierCustomers, EarlierHistory, NoFile).file}

InitCalls ==
  /\ session = FALSE
  /\ customers \in CallCustomers
  /\ campaigns \in Histories
  /\ nextId = Len(campaigns)
  /\ deletes = 0
  /\ file \in CallFiles
  /\ resp = NoResp
  /\ trainOut = NoTrain
  /\ recOut = NoRec
  /\ threads = NoThreads
  /\ crashes = 0

\* train_and_save(customers, campaigns)
TrainCall ==
  LET t == TrainAndSave(customers, campaigns, file)
  IN /\ trainOut' = TrainRecord(t)
     /\ file' = t.file
     /\ recOut' = NoRec
     /\ UNCHANGED <<session, customers, campaigns, nextId, deletes, resp, threads,
                    crashes>>

\* recommend(customers, campaigns, customer_id)
RecommendCall(customer_id) ==
  /\ \E r \in Recommend(customers, campaigns, file, customer_id) : recOut' = r
  /\ trainOut' = NoTrain
  /\ UNCHANGED <<session, customers, campaigns, nextId, deletes, file, resp, threads,
                 crashes>>

NextCalls ==
  \/ TrainCall
  \/ \E c \in {"c1", GhostId} : RecommendCall(c)

SpecCalls == InitCalls /\ [][NextCalls]_vars

\* ------------------------------------------------ customers_page, POST
\* The forms posted to /customers, as typed: a first and a second form for
\* c1 (the second padded with blanks), two for c2 (one without a name, one
\* without an interest), one whose id is blank and one that is empty.
CustomerPosts ==
  {<<"c1", "Ann", "Music">>, <<" c1 ", " Bob", "books">>, <<"c2", "", "books">>,
   <<"c2", "Cy", "">>, <<"  ", "Zed", "Music">>, <<"", "", "">>}

\* str.strip() on the form fields above.
Strip(s) ==
  CASE s = " c1 " -> "c1"
    [] s = " Bob" -> "Bob"
    [] s = "  " -> ""
    [] OTHER -> s

\* customers_page(), POST, from the raw form.
PostCustomer(form) == AddCustomer(Strip(form[1]), Strip(form[2]), Strip(form[3]))

NextCustomers ==
  \/ Login
  \/ \E f \in CustomerPosts : PostCustomer(f)
  \/ \E c \in CustomerIds : DeleteCustomer(c)

SpecCustomers == Init /\ [][NextCustomers]_vars

\* ------------------------------------------- launch_campaign, step by step
\* The state the request-level runs reach after four launches (c1 "Tablet",
\* c1 auto-select, c2 "Tablet", c1 "Tablet") with both customers registered:
\* the step-wise runs start from it, one outcome short of the first fit.
SeedCustomers ==
  [k \in {"c1", "c2"} |->
     IF k = "c1" THEN CustomerRecord("Ann", "Music") ELSE CustomerRecord("", "books")]
SeedCampaigns ==
  HistoryOf(<<<<"c1", "Tablet", <<10, 1, 0>>, 1>>,
              <<"c1", "Bluetooth Speaker", <<10, 1, 0>>, 2>>,
              <<"c2", "Tablet", <<10, 1, 0>>, 3>>, <<"c1", "Tablet", <<10, 1, 0>>, 4>>>>)

\* A request thread's position in launch_campaign and its locals.
IdleThread ==
  [pc |-> "idle", customer_id |-> "", product |-> "", m |-> <<0, 0, 0>>,
   rec |-> NoRec, train |-> NoTrain, pos |-> 0, resp |-> NoResp]

InitSteps(ids) ==
  /\ session = TRUE
  /\ customers = SeedCustomers
  /\ campaigns = SeedCampaigns
  /\ nextId = Len(SeedCampaigns)
  /\ deletes = 0
  /\ file = NoFile
  /\ resp = NoResp
  /\ trainOut = NoTrain
  /\ recOut = NoRec
  /\ threads = [t \in ids |-> IdleThread]
  /\ crashes = 0

\* Requests accepted that have not appended their campaign yet.
ToAppend == {t \in DOMAIN threads : threads[t].pc \in {"recommend", "append"}}

Ended(th, r) == [th EXCEPT !.pc = "done", !.resp = r]

\* launch_campaign(): the login and customer checks, the form fields and
\* the draw of fake_metrics().
Begin(t, customer_id, product, m) ==
  /\ threads[t].pc = "idle"
  /\ nextId + Cardinality(ToAppend) < MaxLaunches
  /\ UNCHANGED <<session, customers, campaigns, nextId, deletes, file, resp,
                 trainOut, recOut, crashes>>
  /\ threads' =
       [threads EXCEPT ![t] =
          IF ~session
          THEN Ended(IdleThread, Redirect("launch_campaign", "Please login first"))
          ELSE IF customer_id \notin DOMAIN customers
          THEN Ended(IdleThread, Redirect("launch_campaign", "Customer not found."))
          ELSE [IdleThread EXCEPT
                  !.pc = IF product = AIRecommended THEN "recommend" ELSE "append",
                  !.customer_id = customer_id, !.product = product, !.m = m]]

\* launch_campaign(): predicted = recommend(customers, campaigns, customer_id)
StepRecommend(t) ==
  /\ threads[t].pc = "recommend"
  /\ UNCHANGED <<session, customers, campaigns, nextId, deletes, file, resp,
                 trainOut, recOut, crashes>>
  /\ \E r \in Recommend(customers, campaigns, file, threads[t].customer_id) :
       threads' =
         [threads EXCEPT ![t] =
            IF r.path = "raised"
            THEN Ended([@ EXCEPT !.rec = r],
                       Error500("launch_campaign", "UnpicklingError"))
            ELSE [@ EXCEPT !.rec = r, !.product = r.returned, !.pc = "append"]]

\* launch_campaign(): campaigns.append({...})
StepAppend(t) ==
  /\ threads[t].pc = "append"
  /\ campaigns' = Append(campaigns,
                         Campaign(nextId + 1, threads[t].customer_id,
                                  threads[t].product, threads[t].m, now_str))
  /\ nextId' = nextId + 1
  /\ threads' = [threads EXCEPT ![t].pc = "train"]
  /\ UNCHANGED <<session, customers, deletes, file, resp, trainOut, recOut, crashes>>

\* train_and_save(): the read of the history, the threshold and the two fits.
StepTrain(t) ==
  /\ threads[t].pc = "train"
  /\ UNCHANGED <<session, customers, campaigns, nextId, deletes, file, resp,
                 trainOut, recOut, crashes>>
  /\ LET data == BuildTrainingData(customers, campaigns)
     IN threads' =
          [threads EXCEPT ![t] =
             IF Len(data.X) < MinExamples
             THEN Ended([@ EXCEPT !.train = [result |-> "None", pair |-> NoPair,
                                             n |-> Len(data.X)]],
                        Redirect("launch_campaign", "Campaign launched"))
             ELSE IF FitRaises(data)
             THEN Ended([@ EXCEPT !.train = [result |-> "ValueError", pair |-> NoPair,
                                             n |-> Len(data.X)]],
                        Error500("launch_campaign", "ValueError"))
             ELSE [@ EXCEPT !.train = [result |-> "", pair |-> FitPair(data),
                                       n |-> Len(data.X)],
                            !.pc = "open"]]

\* open(MODEL_PATH, "rb+") instead of "wb": the file is not truncated.
OpenForWrite_NoTruncate(f) == [exists |-> TRUE, data |-> f.data]

\* open(MODEL_PATH, "wb"): the file is created or truncated to no bytes.
OpenForWrite(f) == [exists |-> TRUE, data |-> <<>>]

\* A write of one chunk at offset pos of the file (bytes skipped over a
\* shorter file read back as zeros).
Hole == [k |-> "hole", fit |-> NoData, classes |-> {}]
WriteAt(data, pos, chunk) ==
  [i \in 1..(IF pos > Len(data) THEN pos ELSE Len(data)) |->
     IF i = pos THEN chunk ELSE IF i <= Len(data) THEN data[i] ELSE Hole]

\* train_and_save(): with open(MODEL_PATH, "wb") as f
StepOpen(t) ==
  /\ threads[t].pc = "open"
  /\ file' = OpenForWrite(file)
  /\ threads' = [threads EXCEPT ![t].pc = "write", ![t].pos = 1]
  /\ UNCHANGED <<session, customers, campaigns, nextId, deletes, resp, trainOut,
                 recOut, crashes>>

\* train_and_save(): pickle.dump((vec, clf), f), one part of the stream at a
\* time at the writer's own offset; after the last one the file is closed,
\* train_and_save returns the pair and the launch answers.
StepWrite(t) ==
  /\ threads[t].pc = "write"
  /\ LET stream == Pickle(threads[t].train.pair)
         pos == threads[t].pos
     IN /\ file' = [exists |-> TRUE, data |-> WriteAt(file.data, pos, stream[pos])]
        /\ threads' =
             [threads EXCEPT ![t] =
                IF pos < Len(stream)
                THEN [@ EXCEPT !.pos = pos + 1]
                ELSE Ended([@ EXCEPT !.train.result = "pair"],
                           Redirect("launch_campaign", "Campaign launched"))]
  /\ UNCHANGED <<session, customers, campaigns, nextId, deletes, resp, trainOut,
                 recOut, crashes>>

\* The response is sent; the thread serves the next request.
Finish(t) ==
  /\ threads[t].pc = "done"
  /\ threads' = [threads EXCEPT ![t] = IdleThread]
  /\ UNCHANGED <<session, customers, campaigns, nextId, deletes, file, resp,
                 trainOut, recOut, crashes>>

\* The process dies at any point and is started again: the module-level
\* customers and campaigns are empty again, the requests in flight are gone,
\* the artifact is what the file system holds. The session cookie is the
\* browser's and stays valid (the secret key is fixed).
Crash ==
  /\ crashes < MaxCrashes
  /\ crashes' = crashes + 1
  /\ customers' = EmptyDict
  /\ campaigns' = <<>>
  /\ threads' = [t \in DOMAIN threads |-> IdleThread]
  /\ resp' = NoResp
  /\ trainOut' = NoTrain
  /\ recOut' = NoRec
  /\ UNCHANGED <<session, nextId, deletes, file>>

LaunchSteps(t) ==
  \/ \E f \in LaunchForms, m \in LaunchMetrics : Begin(t, f[1], f[2], m)
  \/ StepRecommend(t)
  \/ StepAppend(t)
  \/ StepTrain(t)
  \/ StepOpen(t)
  \/ StepWrite(t)
  \/ Finish(t)

\* One request at a time, and the process may die at any step.
InitCrash == InitSteps({1})
NextCrash ==
  \/ LaunchSteps(1)
  \/ Crash
  \/ \E f \in CustomerForms : threads[1].pc = "idle" /\ AddCustomer(f[1], f[2], f[3])
SpecCrash == InitCrash /\ [][NextCrash]_vars

\* Two request threads (the development server is threaded).
Workers == {1, 2}
InitConc == InitSteps(Workers)
NextConc == \E t \in Workers : LaunchSteps(t)
SpecConc == InitConc /\ [][NextConc]_vars

\* ------------------------------------------------------------------ claims

\* C1: a train_and_save call on a history of fewer than 5 outcomes returns
\* None and leaves the artifact exactly as it was: absent if it was absent,
\* the same persisted pair if there was one.
C1_InsufficientDataLeavesModel ==
  [][(trainOut'.result # "" /\ Len(campaigns) < MinExamples)
       => (trainOut'.result = "None" /\ file' = file)]_vars

\* C1 witness: a call with fewer than 5 outcomes returned None while a pair
\* was persisted.
C1_Witness ==
  /\ trainOut.result = "None"
  /\ trainOut.n < MinExamples
  /\ trainOut.n > 0
  /\ LoadModel(file).kind = "pair"

\* C2: after a train_and_save call on a history of at least 5 outcomes the
\* call has returned a pair, and load_model returns exactly that pair, both
\* halves of it from this pass.
C2_TrainSucceedsFromFive ==
  (trainOut.result # "" /\ Len(campaigns) >= MinExamples)
    => /\ trainOut.result = "pair"
       /\ LoadModel(file).kind = "pair"
       /\ LoadModel(file).pair = trainOut.pair
       /\ trainOut.pair.vec.fit = BuildTrainingData(customers, campaigns)
       /\ trainOut.pair.clf.fit = BuildTrainingData(customers, campaigns)

\* The fallback table of the specification, spelling by spelling.
C3_Table(interest) ==
  CASE interest \in {"electronics", "ELECTRONICS"} -> "Wireless Headphones"
    [] interest \in {"Gadgets"} -> "Smartwatch"
    [] interest \in {"computers"} -> "Laptop"
    [] interest \in {"Music"} -> "Bluetooth Speaker"
    [] OTHER -> "Wireless Headphones"

C3_InterestOf(customer_id) ==
  IF customer_id \in DOMAIN customers /\ "interest" \in DOMAIN customers[customer_id]
  THEN customers[customer_id].interest
  ELSE "missing"

\* C3: with no artifact persisted, recommend does not raise and returns the
\* product the fallback table gives for the customer's interest, compared
\* case-insensitively, also for an id that is not in customers.
C3_FallbackTable ==
  (recOut.path # "" /\ ~file.exists)
    => /\ recOut.path = "fallback"
       /\ recOut.returned = C3_Table(C3_InterestOf(recOut.customer_id))

\* C3 witness: a fallback answer other than the default, for a tag written
\* in capitals.
C3_Witness ==
  /\ recOut.path = "fallback"
  /\ ~file.exists
  /\ C3_InterestOf(recOut.customer_id) = "Music"
  /\ recOut.returned = "Bluetooth Speaker"

\* C3 witness, second case: the id is not in customers.
C3_WitnessUnknownId ==
  /\ recOut.path = "fallback"
  /\ recOut.customer_id \notin DOMAIN customers
  /\ recOut.returned = "Wireless Headphones"

\* C9: when load_model returns a pair, recommend returns the label that
\* pair's classifier predicted on the features of the call, whoever the
\* customer is: no fallback, no check against PRODUCTS.
C9_ModelTrusted ==
  (recOut.path # "" /\ LoadModel(file).kind = "pair")
    => /\ recOut.path = "model"
       /\ recOut.pair = LoadModel(file).pair
       /\ recOut.pair.vec.fit = recOut.pair.clf.fit
       /\ recOut.predicted \in recOut.pair.clf.classes
       /\ recOut.returned = recOut.predicted

\* C9 witness: the model answered, for an id that is not in customers, with a
\* label outside PRODUCTS.
C9_Witness ==
  /\ recOut.path = "model"
  /\ recOut.customer_id \notin DOMAIN customers
  /\ recOut.returned \notin PRODUCTS

\* C5: a launch whose training pass fails (here: fit raises) still ends as
\* a successful launch, the failure being reported apart from "not enough
\* data".
C5_TrainingFailureDoesNotBlockLaunch ==
  (resp.handler = "launch_campaign" /\ trainOut.result = "ValueError")
    => (resp.status = "redirect" /\ resp.flash = "Campaign launched")

\* C10: an artifact exists only if the pass that wrote it saw at least 5
\* examples, and the artifact changes only in a step whose training pass saw
\* at least 5 examples and returned a pair: every other request (a launch
\* with fewer than 5, its recommendation, adding or deleting a customer,
\* deleting a campaign) leaves it as it is.
C10_ModelLifecycle ==
  /\ [](file.exists => (Loadable(file.data) /\ Len(file.data[1].fit.X) >= MinExamples))
  /\ [][file' # file => (trainOut'.result = "pair" /\ trainOut'.n >= MinExamples)]_vars

\* C10 witness: the artifact is still in place after a deletion brought the
\* history below 5 outcomes.
C10_Witness ==
  /\ file.exists
  /\ Len(campaigns) < MinExamples
  /\ resp.handler \in {"delete_customer", "delete_campaign"}

\* The request-level runs reach the state the step-wise runs start from.
SeedReached ==
  /\ customers = SeedCustomers
  /\ campaigns = SeedCampaigns
  /\ file = NoFile
  /\ session

\* C4: a load_model that raises (the artifact exists but does not unpickle)
\* is handled like "no model": recommend answers with the fallback product
\* and the launch that asked does not end in an error.
C4_LoadFailureFallsBack ==
  \A t \in DOMAIN threads :
    threads[t].rec.loaded = "raised"
      => /\ threads[t].rec.path = "fallback"
         /\ threads[t].rec.returned \in PRODUCTS
         /\ threads[t].resp.status # "500"

\* C6: whatever a save in flight has written so far, a load_model in
\* recommend yields "no model" or a complete pair written by one pass; it
\* never fails on, or returns, a partly written artifact.
C6_LoadNeverSeesPartialWrite ==
  \A t \in DOMAIN threads :
    /\ threads[t].rec.loaded # "raised"
    /\ threads[t].rec.loaded = "pair"
         => threads[t].rec.pair.vec.fit = threads[t].rec.pair.clf.fit

\* C7: after a crash, whatever point of the save it hit, the artifact on
\* storage is not one that load_model accepts and whose vectorizer and
\* classifier come from different fits.
C7_CrashLeavesNoMixedPair ==
  (crashes > 0 /\ LoadModel(file).kind = "pair")
    => LoadModel(file).pair.vec.fit = LoadModel(file).pair.clf.fit

\* C7 witness: the process crashed while the save of a later pass had
\* written only part of its stream over the truncated artifact.
C7_Witness ==
  /\ crashes > 0
  /\ file.exists
  /\ Len(file.data) \in {1, 2}
  /\ Len(file.data[1].fit.X) > MinExamples
  /\ LoadModel(file).kind = "raised"

\* Passes between their read of the history and the end of their save.
C8_InPass == {t \in DOMAIN threads : threads[t].pc \in {"open", "write"}}

\* C8, first half: training passes do not overlap.
C8_Serialized == Cardinality(C8_InPass) <= 1

\* C8, second half: once no launch is in flight and the last pass over a
\* history of 5 or more fitted, the artifact is the pair fit on the whole
\* history.
C8_NoLostUpdate ==
  (/\ \A t \in DOMAIN threads : threads[t].pc \in {"idle", "done"}
   /\ \A t \in DOMAIN threads : threads[t].resp.status # "500"
   /\ \E t \in DOMAIN threads : threads[t].train.result = "pair"
   /\ Len(campaigns) >= MinExamples
   /\ ~FitRaises(BuildTrainingData(customers, campaigns)))
    => /\ LoadModel(file).kind = "pair"
       /\ LoadModel(file).pair = FitPair(BuildTrainingData(customers, campaigns))

\* C8: training passes of concurrent launches are serialized, so that the
\* artifact left when all of them are done is fit on the full history.
C8_TrainingSerialized == C8_Serialized /\ C8_NoLostUpdate

\* C11: in a launch that passes the login and customer checks the new
\* outcome is appended, train_and_save is invoked on the history that ends
\* with it, and the recommendation of that launch (when one was asked for)
\* came from the artifact and the campaigns as they were before the append.
C11_RecommendThenAppendThenTrain ==
  [][(/\ resp'.handler = "launch_campaign"
      /\ resp'.flash \notin {"Please login first", "Customer not found."})
       => /\ nextId' = nextId + 1
          /\ Len(campaigns') = Len(campaigns) + 1
          /\ SubSeq(campaigns', 1, Len(campaigns)) = campaigns
          /\ campaigns'[Len(campaigns')].id = nextId'
          /\ trainOut'.result \in {"None", "pair", "ValueError"}
          /\ trainOut'.n = Len(campaigns')
          /\ trainOut'.result = "pair"
               => trainOut'.pair.clf.fit = BuildTrainingData(customers, campaigns')
          /\ recOut'.path # ""
               => /\ recOut'.loaded = LoadModel(file).kind
                  /\ campaigns'[Len(campaigns')].product = recOut'.returned
          /\ recOut'.path = "model"
               => /\ recOut'.pair = LoadModel(file).pair
                  /\ recOut'.features =
                       RecentFeatures(campaigns, recOut'.customer_id, recOut'.interest)]_vars

\* C11 witness: a launch was recommended its product by the pair of an
\* earlier pass and then trained and persisted a new pair.
C11_Witness ==
  /\ resp.handler = "launch_campaign"
  /\ recOut.path = "model"
  /\ trainOut.result = "pair"
  /\ trainOut.n = Len(campaigns)
  /\ recOut.pair # trainOut.pair
  /\ LoadModel(file).pair = trainOut.pair

\* C12: when a model is loaded, the open_rate, click_rate and conversions that
\* recommend feeds to it for customer_id are those of the campaign with the
\* greatest position in the list among the campaigns of that customer,
\* whatever the created_at values are; with no such campaign all three are 0.
C12_Matching == {i \in 1..Len(campaigns) : campaigns[i].customer_id = recOut.customer_id}

C12_LastAppendedFeatures ==
  recOut.path = "model"
    => IF C12_Matching = {}
       THEN /\ recOut.features.open_rate = 0
            /\ recOut.features.click_rate = 0
            /\ recOut.features.conversions = 0
       ELSE LET k == CHOOSE i \in C12_Matching : \A j \in C12_Matching : j <= i
            IN /\ recOut.features.open_rate = campaigns[k].open_rate
               /\ recOut.features.click_rate = campaigns[k].click_rate
               /\ recOut.features.conversions = campaigns[k].conversions

\* A model answered for a customer whose last appended campaign is older by
\* created_at than an earlier one with other rates.
C12_Witness ==
  /\ recOut.path = "model"
  /\ \E i, k \in C12_Matching :
       /\ i < k
       /\ \A j \in C12_Matching : j <= k
       /\ campaigns[i].created_at > campaigns[k].created_at
       /\ campaigns[i].open_rate # campaigns[k].open_rate
       /\ recOut.features.open_rate = campaigns[k].open_rate

\* A model answered for a customer without campaigns, with other customers'
\* campaigns present.
C12_WitnessNoCampaign ==
  /\ recOut.path = "model"
  /\ campaigns # <<>>
  /\ C12_Matching = {}
  /\ recOut.features.open_rate = 0
\* C13: a call of train_and_save counts one example per campaign, so it
\* returns None exactly when fewer than MinExamples campaigns exist; the data
\* a pass was fit on has one example per campaign, in list order, with that
\* campaign's rates and its product as label, and interest "unknown" for a
\* campaign whose customer_id is not a key of customers.
C13_OneExamplePerOutcome ==
  trainOut.result # ""
    => /\ trainOut.n = Len(campaigns)
       /\ trainOut.result = "None" <=> Len(campaigns) < MinExamples
       /\ trainOut.result = "pair"
            => LET data == trainOut.pair.clf.fit
               IN /\ Len(data.X) = Len(campaigns)
                  /\ Len(data.y) = Len(campaigns)
                  /\ trainOut.pair.vec.fit = data
                  /\ \A i \in 1..Len(campaigns) :
                       /\ data.y[i] = campaigns[i].product
                       /\ data.X[i].open_rate = campaigns[i].open_rate
                       /\ data.X[i].click_rate = campaigns[i].click_rate
                       /\ data.X[i].conversions = campaigns[i].conversions
                       /\ campaigns[i].customer_id \notin DOMAIN customers
                            => data.X[i].interest = "unknown"

\* A pass was fit on exactly MinExamples campaigns, one of them of a customer
\* that is not registered while the customer of the others is.
C13_Witness ==
  /\ trainOut.result = "pair"
  /\ trainOut.n = MinExamples
  /\ \E i, j \in 1..Len(campaigns) :
       /\ campaigns[i].customer_id \notin DOMAIN customers
       /\ campaigns[j].customer_id \in DOMAIN customers
       /\ trainOut.pair.clf.fit.X[i].interest = "unknown"
       /\ trainOut.pair.clf.fit.X[j].interest # "unknown"
\* C14: a POST to /customers answered "Customer ID is required." or
\* "Customer already exists." leaves customers as it was (nothing stored under
\* the empty id, a registered record not overwritten), and a POST by a logged
\* in user with a non-empty id that is not registered is answered "Customer
\* added successfully!" and stores the submitted name and interest under it.
C14_Rejected ==
  /\ resp'.handler = "customers_page"
  /\ resp'.flash \in {"Customer ID is required.", "Customer already exists."}

C14_RejectedLeavesStore == [][C14_Rejected => customers' = customers]_vars

C14_NewIdAccepted ==
  [][\A f \in CustomerPosts :
       (/\ PostCustomer(f)
        /\ session
        /\ Strip(f[1]) # ""
        /\ Strip(f[1]) \notin DOMAIN customers)
         => /\ resp'.flash = "Customer added successfully!"
            /\ DOMAIN customers' = DOMAIN customers \cup {Strip(f[1])}
            /\ customers'[Strip(f[1])].name = CustomerRecord(Strip(f[2]), "").name
            /\ DictGet(customers'[Strip(f[1])], "interest", "none stored") = Strip(f[3])]_vars

C14_CustomersPage == C14_RejectedLeavesStore /\ C14_NewIdAccepted

\* The two rejections of C14, each on its own: the empty id, and an id that
\* was registered before the request.
C14_EmptyIdStoresNothing ==
  [][(resp'.handler = "customers_page" /\ resp'.flash = "Customer ID is required.")
       => "" \notin DOMAIN customers']_vars

C14_RegisteredNotOverwritten ==
  [][\A c \in DOMAIN customers :
       (C14_Rejected /\ c \in DOMAIN customers') => customers'[c] = customers[c]]_vars
\* C15: with requests handled one at a time, every campaign in the list
\* belongs to a registered customer.
C15_CampaignsHaveCustomers ==
  \A i \in 1..Len(campaigns) : campaigns[i].customer_id \in DOMAIN customers

\* delete_customer removed a customer together with its campaigns while
\* campaigns of another customer stay.
C15_Witness ==
  /\ resp.handler = "delete_customer"
  /\ resp.flash = "Deleted customer and related campaigns."
  /\ campaigns # <<>>
  /\ Len(campaigns) < nextId
  /\ \E c \in CustomerIds : c \notin DOMAIN customers

\* launch_campaign refused a customer that is not registered while campaigns
\* of another customer exist.
C15_WitnessRefused ==
  /\ resp.handler = "launch_campaign"
  /\ resp.flash = "Customer not found."
  /\ campaigns # <<>>
====
